---- MODULE Spec2Model ----
(***************************************************************************)
(* Model of the SIYB GYB coach (src/app.py): the heuristic question        *)
(* classifier and the turn handler of main(), which drives the session     *)
(* through the guided stages, answers side questions and produces the      *)
(* final summary.                                                          *)
(*                                                                         *)
(* Text is a sequence of string chunks.  A learner input is chunked per    *)
(* character so that the classifier can inspect it; a fixed literal of the *)
(* program and an oracle reply are one chunk each.                         *)
(***************************************************************************)
EXTENDS Integers, Sequences, FiniteSets, TLC

VARIABLES
    stage,          \* st.session_state.stage
    messages,       \* st.session_state.messages (the transcript)
    data,           \* st.session_state.data (collected fields)
    summary,        \* st.session_state.summary: None or Some(text)
    last_question,  \* st.session_state.last_question (pending question)
    pc,             \* position of main(): "idle" or the oracle call it is blocked in
    user_input,     \* local user_input of the turn in progress
    inflight,       \* oracle requests issued and not yet returned
    turns,          \* history: number of turns started
    pre,            \* history: session state when the current turn started
    turnCalls,      \* history: oracle requests issued in the current turn
    outcome,        \* history: how the last turn ended: "none", "ok", "failed"
    branch,         \* history: branch of the current/last turn: "side", "guided", "general"
    answers,        \* history: inputs handled that were not classified as questions
    failures,       \* history: number of oracle calls that raised
    summarySets,    \* history: number of assignments to summary
    probe           \* one application of a pure function: its arguments and result

vars == <<stage, messages, data, summary, last_question, pc, user_input,
          inflight, turns, pre, turnCalls, outcome, branch, answers,
          failures, summarySets, probe>>

\* The variables of the session
sessionVars ==
    <<stage, messages, data, summary, last_question, pc, user_input,
      inflight, turns, pre, turnCalls, outcome, branch, answers,
      failures, summarySets>>

-----------------------------------------------------------------------------
(* Bounds *)

\* Turns the learner starts
MaxTurns == 6

\* Oracle calls that raise
MaxFailures == 1

-----------------------------------------------------------------------------
(* Text helpers *)

Whitespace == {" ", "\t", "\n"}

LowerChar(c) ==
    CASE c = "A" -> "a" [] c = "B" -> "b" [] c = "C" -> "c" [] c = "D" -> "d"
      [] c = "E" -> "e" [] c = "F" -> "f" [] c = "G" -> "g" [] c = "H" -> "h"
      [] c = "I" -> "i" [] c = "J" -> "j" [] c = "K" -> "k" [] c = "L" -> "l"
      [] c = "M" -> "m" [] c = "N" -> "n" [] c = "O" -> "o" [] c = "P" -> "p"
      [] c = "Q" -> "q" [] c = "R" -> "r" [] c = "S" -> "s" [] c = "T" -> "t"
      [] c = "U" -> "u" [] c = "V" -> "v" [] c = "W" -> "w" [] c = "X" -> "x"
      [] c = "Y" -> "y" [] c = "Z" -> "z" [] OTHER -> c

\* str.lower()
Lower(t) == [i \in 1..Len(t) |-> LowerChar(t[i])]

RECURSIVE LStrip(_)
LStrip(t) ==
    IF t = <<>> THEN t
    ELSE IF Head(t) \in Whitespace THEN LStrip(Tail(t)) ELSE t

RECURSIVE RStrip(_)
RStrip(t) ==
    IF t = <<>> THEN t
    ELSE IF t[Len(t)] \in Whitespace THEN RStrip(SubSeq(t, 1, Len(t) - 1)) ELSE t

\* str.strip()
Strip(t) == RStrip(LStrip(t))

\* str.startswith(p)
StartsWith(t, p) == Len(p) <= Len(t) /\ SubSeq(t, 1, Len(p)) = p

\* str.endswith(p)
EndsWith(t, p) ==
    Len(p) <= Len(t) /\ SubSeq(t, Len(t) - Len(p) + 1, Len(t)) = p

\* A character of a word: a letter, a digit or the underscore
IsWordChar(c) ==
    c \in { "a","b","c","d","e","f","g","h","i","j","k","l","m","n","o","p",
            "q","r","s","t","u","v","w","x","y","z",
            "A","B","C","D","E","F","G","H","I","J","K","L","M","N","O","P",
            "Q","R","S","T","U","V","W","X","Y","Z",
            "0","1","2","3","4","5","6","7","8","9","_" }

\* _tokenize: re.findall(r"\w+", text.lower()): the maximal runs of word
\* characters of the lower-cased text, in their order
tokenize(text) ==
    LET t == Lower(text)
        starts == { i \in 1..Len(t) :
                       /\ IsWordChar(t[i])
                       /\ i = 1 \/ ~IsWordChar(t[i - 1]) }
        EndOf(i) == CHOOSE j \in i..Len(t) :
                       /\ \A m \in i..j : IsWordChar(t[m])
                       /\ j = Len(t) \/ ~IsWordChar(t[j + 1])
        Nth(n) == CHOOSE i \in starts :
                       Cardinality({ x \in starts : x < i }) = n - 1
    IN  [n \in 1..Cardinality(starts) |-> SubSeq(t, Nth(n), EndOf(Nth(n)))]

\* The starters tuple of looks_like_question
starters ==
    { <<"h","o","w">>, <<"w","h","a","t">>, <<"w","h","y">>,
      <<"w","h","e","n">>, <<"w","h","e","r","e">>, <<"w","h","o">>,
      <<"w","h","i","c","h">>,
      <<"c","a","n"," ">>, <<"c","o","u","l","d"," ">>,
      <<"s","h","o","u","l","d"," ">>, <<"i","s"," ">>, <<"a","r","e"," ">>,
      <<"d","o"," ">>, <<"d","o","e","s"," ">> }

looks_like_question(text) ==
    IF text = <<>> THEN FALSE
    ELSE LET t == Lower(Strip(text)) IN
         IF EndsWith(t, <<"?">>) THEN TRUE
         ELSE \E s \in starters : StartsWith(t, s)

-----------------------------------------------------------------------------
(* Literals of main() *)

None == <<>>
Some(x) == <<x>>

FirstQuestion ==
    <<"First, tell me about yourself - skills, experience, situation?">>

Greeting == <<"Assalam o alaikum!\n\n">> \o FirstQuestion

SummaryNotice == <<"Here is your SIYB summary below:">>

Msg(role, content) == [role |-> role, content |-> content]

\* FieldOf with the competitors branch writing the customers field
FieldOf_CopyPaste(st) ==
    CASE st = "ask_background"  -> "background"
      [] st = "ask_idea"        -> "idea"
      [] st = "ask_customers"   -> "customers"
      [] st = "ask_competitors" -> "customers"
      [] st = "ask_location"    -> "location"

\* FieldOf with the idea branch writing the background field
FieldOf_Overwrite(st) ==
    CASE st = "ask_background"  -> "background"
      [] st = "ask_idea"        -> "background"
      [] st = "ask_customers"   -> "customers"
      [] st = "ask_competitors" -> "competitors"
      [] st = "ask_location"    -> "location"

\* The field written by the guided branch of a stage (data["..."] = user_input)
FieldOf(st) ==
    CASE st = "ask_background"  -> "background"
      [] st = "ask_idea"        -> "idea"
      [] st = "ask_customers"   -> "customers"
      [] st = "ask_competitors" -> "competitors"
      [] st = "ask_location"    -> "location"

\* NextQuestion with the customers branch asking the customers question again
NextQuestion_Stale(st) ==
    CASE st = "ask_background"  -> <<"Great - now describe one business idea you have?">>
      [] st = "ask_idea"        -> <<"Nice. Who are your main customers?">>
      [] st = "ask_customers"   -> <<"Nice. Who are your main customers?">>
      [] st = "ask_competitors" -> <<"Where will you run this business (home, shop, online)?">>

\* The question q asked by the guided branch of a stage
NextQuestion(st) ==
    CASE st = "ask_background"  -> <<"Great - now describe one business idea you have?">>
      [] st = "ask_idea"        -> <<"Nice. Who are your main customers?">>
      [] st = "ask_customers"   -> <<"Now tell me about your competitors.">>
      [] st = "ask_competitors" -> <<"Where will you run this business (home, shop, online)?">>

\* NextStage with the idea branch jumping over ask_customers
NextStage_Skip(st) ==
    CASE st = "ask_background"  -> "ask_idea"
      [] st = "ask_idea"        -> "ask_competitors"
      [] st = "ask_customers"   -> "ask_competitors"
      [] st = "ask_competitors" -> "ask_location"
      [] st = "ask_location"    -> "finished"

\* NextStage with the location branch not leaving ask_location
NextStage_Stuck(st) ==
    CASE st = "ask_background"  -> "ask_idea"
      [] st = "ask_idea"        -> "ask_customers"
      [] st = "ask_customers"   -> "ask_competitors"
      [] st = "ask_competitors" -> "ask_location"
      [] st = "ask_location"    -> "ask_location"

\* The value the guided branch of a stage assigns to st.session_state.stage
NextStage(st) ==
    CASE st = "ask_background"  -> "ask_idea"
      [] st = "ask_idea"        -> "ask_customers"
      [] st = "ask_customers"   -> "ask_competitors"
      [] st = "ask_competitors" -> "ask_location"
      [] st = "ask_location"    -> "finished"

\* IsSideQuestion without the test of the stage
IsSideQuestion_AnyStage(st, inp) == looks_like_question(inp)

\* The condition of the "Hybrid Q&A" branch
IsSideQuestion(st, inp) == st # "finished" /\ looks_like_question(inp)

\* The branches of the guided flow that store a field (the elif chain)
IsGuidedStage(st) ==
    st \in {"ask_background", "ask_idea", "ask_customers", "ask_competitors",
            "ask_location"}

\* IsSummaryStage with the competitors branch generating a summary too
IsSummaryStage_Early(st) == st \in {"ask_competitors", "ask_location"}

\* The branch of the guided flow that goes on to generate_summary
IsSummaryStage(st) == st = "ask_location"

\* SetItem that replaces the dict by one holding only the new item
SetItem_Replace(d, key, value) == [f \in {key} |-> value]

\* data[key] = value on a dict
SetItem(d, key, value) ==
    [f \in DOMAIN d \cup {key} |-> IF f = key THEN value ELSE d[f]]

-----------------------------------------------------------------------------
(* The environment: what the learner types and what the oracle returns *)

Inputs ==
    { <<>>,
      <<"a"," ","s","h","o","p">>,
      <<"h","o","m","e">>,
      <<"W","h","y","?">> }

Replies == { <<"oracle text">> }

\* SideMessages without the pending question
SideMessages_NoQuestion(reply, question) == << Msg("assistant", reply) >>

\* SideMessages with the pending question before the reply
SideMessages_QuestionFirst(reply, question) ==
    << Msg("assistant", question), Msg("assistant", reply) >>

\* What the side-question branch appends: the reply, then the pending question
SideMessages(reply, question) ==
    << Msg("assistant", reply), Msg("assistant", question) >>

\* An oracle request: the function issuing it and its stage argument
Call(fn, st) == [fn |-> fn, stage |-> st]

Snapshot ==
    [stage |-> stage, data |-> data, last_question |-> last_question,
     summary |-> summary, mlen |-> Len(messages)]

-----------------------------------------------------------------------------
(* The session *)

SessionInit ==
    /\ stage = "ask_background"
    /\ messages = << Msg("assistant", Greeting) >>
    /\ data = << >>
    /\ summary = None
    /\ last_question = FirstQuestion
    /\ pc = "idle"
    /\ user_input = << >>
    /\ inflight = {}
    /\ turns = 0
    /\ pre = [stage |-> "ask_background", data |-> << >>,
              last_question |-> FirstQuestion, summary |-> None, mlen |-> 1]
    /\ turnCalls = << >>
    /\ outcome = "none"
    /\ branch = "none"
    /\ answers = << >>
    /\ failures = 0
    /\ summarySets = 0

\* No pure function is being applied
NoProbe == [fn |-> "none"]

Init == SessionInit /\ probe = NoProbe

\* Bookkeeping common to the start of a turn
StartTurn(inp, br, call) ==
    /\ pc = "idle"
    /\ turns < MaxTurns
    /\ inp # << >>                                  \* if user_input:
    /\ messages' = Append(messages, Msg("user", inp))
    /\ user_input' = inp
    /\ inflight' = inflight \cup {call}
    /\ turnCalls' = << call >>
    /\ turns' = turns + 1
    /\ pre' = Snapshot
    /\ outcome' = "none"
    /\ branch' = br
    /\ answers' = IF looks_like_question(inp) THEN answers
                  ELSE Append(answers, inp)
    /\ UNCHANGED <<stage, summary, last_question, failures, summarySets, probe>>

\* A question while the guided flow is running: llm_feedback("general", ...)
SideQuestion(inp) ==
    /\ IsSideQuestion(stage, inp)
    /\ StartTurn(inp, "side", Call("llm_feedback", "general"))
    /\ pc' = "side"
    /\ UNCHANGED data

\* Guided flow at a stage that stores a field: the field is written, then
\* llm_feedback(stage, ...) is called
GuidedAnswer(inp) ==
    /\ ~IsSideQuestion(stage, inp)
    /\ IsGuidedStage(stage)
    /\ StartTurn(inp, "guided", Call("llm_feedback", stage))
    /\ data' = SetItem(data, FieldOf(stage), inp)
    /\ pc' = "guided"

\* After finished: llm_feedback("general", ...)
AfterFinished(inp) ==
    /\ ~IsSideQuestion(stage, inp)
    /\ ~IsGuidedStage(stage)
    /\ StartTurn(inp, "general", Call("llm_feedback", "general"))
    /\ pc' = "general"
    /\ UNCHANGED data

\* Bookkeeping common to the end of a turn
EndTurn(how) ==
    /\ pc' = "idle"
    /\ outcome' = how
    /\ UNCHANGED <<user_input, turns, pre, branch, answers, probe>>

\* The side question's reply arrives: reply, then the pending question again
SideReply(r) ==
    /\ pc = "side"
    /\ inflight' = inflight \ {Call("llm_feedback", "general")}
    /\ messages' = messages \o SideMessages(r, last_question)
    /\ EndTurn("ok")
    /\ UNCHANGED <<stage, data, summary, last_question, turnCalls, failures,
                   summarySets>>

\* The feedback of a guided answer arrives at one of the first four stages
GuidedFeedback(r) ==
    /\ pc = "guided"
    /\ ~IsSummaryStage(stage)
    /\ inflight' = inflight \ {Call("llm_feedback", stage)}
    /\ messages' = messages \o << Msg("assistant", r),
                                  Msg("assistant", NextQuestion(stage)) >>
    /\ last_question' = NextQuestion(stage)
    /\ stage' = NextStage(stage)
    /\ EndTurn("ok")
    /\ UNCHANGED <<data, summary, turnCalls, failures, summarySets>>

\* The feedback of the location answer arrives: generate_summary is called
LocationFeedback(r) ==
    /\ pc = "guided"
    /\ IsSummaryStage(stage)
    /\ messages' = Append(messages, Msg("assistant", r))
    /\ inflight' = (inflight \ {Call("llm_feedback", stage)})
                       \cup {Call("generate_summary", stage)}
    /\ turnCalls' = Append(turnCalls, Call("generate_summary", stage))
    /\ pc' = "summary"
    /\ UNCHANGED <<stage, data, summary, last_question, user_input, turns, pre,
                   outcome, branch, answers, failures, summarySets, probe>>

\* generate_summary returns
SummaryReturn(r) ==
    /\ pc = "summary"
    /\ inflight' = inflight \ {Call("generate_summary", stage)}
    /\ summary' = Some(r)
    /\ summarySets' = summarySets + 1
    /\ messages' = Append(messages, Msg("assistant", SummaryNotice))
    /\ stage' = NextStage(stage)
    /\ EndTurn("ok")
    /\ UNCHANGED <<data, last_question, turnCalls, failures>>

\* The reply to an input after finished arrives
GeneralReply(r) ==
    /\ pc = "general"
    /\ inflight' = inflight \ {Call("llm_feedback", "general")}
    /\ messages' = Append(messages, Msg("assistant", r))
    /\ EndTurn("ok")
    /\ UNCHANGED <<stage, data, summary, last_question, turnCalls, failures,
                   summarySets>>

\* FeedbackRaises that takes the learner's message back out of the transcript
FeedbackRaises_Rollback ==
    /\ pc \in {"side", "guided", "general"}
    /\ failures < MaxFailures
    /\ inflight' = {}
    /\ failures' = failures + 1
    /\ messages' = SubSeq(messages, 1, Len(messages) - 1)
    /\ pc' = "idle"
    /\ outcome' = "failed"
    /\ UNCHANGED <<stage, data, summary, last_question, turnCalls, summarySets,
                   user_input, turns, pre, branch, answers, probe>>

\* client.chat.completions.create raises inside llm_feedback: the exception
\* leaves main(); what was assigned to the session before the call stays
FeedbackRaises ==
    /\ pc \in {"side", "guided", "general"}
    /\ failures < MaxFailures
    /\ inflight' = {}
    /\ failures' = failures + 1
    /\ EndTurn("failed")
    /\ UNCHANGED <<stage, messages, data, summary, last_question, turnCalls,
                   summarySets>>

\* client.chat.completions.create raises inside generate_summary
SummaryRaises ==
    /\ pc = "summary"
    /\ failures < MaxFailures
    /\ inflight' = {}
    /\ failures' = failures + 1
    /\ EndTurn("failed")
    /\ UNCHANGED <<stage, messages, data, summary, last_question, turnCalls,
                   summarySets>>

Next ==
    \/ \E inp \in Inputs : SideQuestion(inp)
    \/ \E inp \in Inputs : GuidedAnswer(inp)
    \/ \E inp \in Inputs : AfterFinished(inp)
    \/ \E r \in Replies : SideReply(r)
    \/ \E r \in Replies : GuidedFeedback(r)
    \/ \E r \in Replies : LocationFeedback(r)
    \/ \E r \in Replies : SummaryReturn(r)
    \/ \E r \in Replies : GeneralReply(r)
    \/ FeedbackRaises
    \/ SummaryRaises

Spec == Init /\ [][Next]_vars

-----------------------------------------------------------------------------
(* The classifier applied to single texts *)

\* Texts given to looks_like_question: a word, with or without leading
\* blanks, followed by nothing, a blank, a question mark, more letters,
\* another word or an apostrophe
ClassifyWords ==
    { <<"h","o","w">>, <<"w","h","a","t">>, <<"w","h","y">>, <<"w","h","e","n">>, <<"w","h","e","r","e">>, <<"w","h","o">>, <<"w","h","i","c","h">>,
      <<"c","a","n">>, <<"c","o","u","l","d">>, <<"s","h","o","u","l","d">>, <<"i","s">>, <<"a","r","e">>, <<"d","o">>, <<"d","o","e","s">>,
      <<"H","o","w">>, <<"I","S">>, <<"a"," ","s","h","o","p">>, <<"s","h","o","p">>, <<>> }

ClassifyPrefixes == { <<>>, <<" ">> }

ClassifySuffixes ==
    { <<>>, <<" ">>, <<"?">>, <<"e","v","e","r">>, <<" ","x">>, <<"'","t">>,
      <<"?"," ">>, <<"_","x">> }

ClassifyTexts ==
    { p \o w \o x : p \in ClassifyPrefixes, w \in ClassifyWords,
                     x \in ClassifySuffixes }

InitClassify ==
    /\ SessionInit
    /\ probe \in { [fn |-> "looks_like_question", text |-> t, done |-> FALSE,
                    result |-> FALSE] : t \in ClassifyTexts }

\* looks_like_question(text) is evaluated
Classify ==
    /\ probe.fn = "looks_like_question"
    /\ ~probe.done
    /\ probe' = [probe EXCEPT !.done = TRUE,
                              !.result = looks_like_question(probe.text)]
    /\ UNCHANGED sessionVars

NextClassify == Classify

SpecClassify == InitClassify /\ [][NextClassify]_vars

-----------------------------------------------------------------------------
(* Retrieval: the BM25 index over the chunks and get_relevant_snippets.     *)
(* Scores are fixed-point numbers, in millionths.                           *)

\* snippet.get("content", "")
GetContent(snippet) ==
    IF "content" \in DOMAIN snippet THEN snippet.content ELSE <<>>

\* CORPUS_TOKENS: the tokens of every record of GYB_SNIPPETS
CorpusTokens(snippets) ==
    [i \in 1..Len(snippets) |-> tokenize(GetContent(snippets[i]))]

Range(seq) == { seq[i] : i \in 1..Len(seq) }

RECURSIVE SumSeq(_)
SumSeq(seq) == IF seq = <<>> THEN 0 ELSE Head(seq) + SumSeq(Tail(seq))

RECURSIVE SumOver(_, _)
SumOver(f, S) ==
    IF S = {} THEN 0
    ELSE LET x == CHOOSE y \in S : TRUE IN f[x] + SumOver(f, S \ {x})

\* math.log(x / 2) for the odd x that a corpus of up to five passages gives
LnHalf(x) ==
    CASE x = 1  -> -693147
      [] x = 3  -> 405465
      [] x = 5  -> 916291
      [] x = 7  -> 1252763
      [] x = 9  -> 1504077
      [] x = 11 -> 1704748

\* BM25Okapi defaults: k1 = 1.5, b = 0.75, epsilon = 0.25
K1Num == 3
K1Den == 2
BNum == 3
BDen == 4
EpsilonNum == 1
EpsilonDen == 4

\* BM25Okapi(corpus): the statistics of the index, or the ZeroDivisionError
\* of the average idf when no passage has a token
BM25Okapi(corpus) ==
    LET words == UNION { Range(corpus[i]) : i \in 1..Len(corpus) }
        nd == [w \in words |->
                  Cardinality({ i \in 1..Len(corpus) : w \in Range(corpus[i]) })]
        raw == [w \in words |->
                  LnHalf(2 * (Len(corpus) - nd[w]) + 1) - LnHalf(2 * nd[w] + 1)]
    IN  IF words = {} THEN [raised |-> TRUE]
        ELSE LET average_idf == SumOver(raw, words) \div Cardinality(words)
                 eps == (EpsilonNum * average_idf) \div EpsilonDen
             IN  [raised |-> FALSE,
                  corpus_size |-> Len(corpus),
                  doc_len |-> [i \in 1..Len(corpus) |-> Len(corpus[i])],
                  total_len |-> SumSeq([i \in 1..Len(corpus) |-> Len(corpus[i])]),
                  doc_tokens |-> corpus,
                  idf |-> [w \in words |-> IF raw[w] < 0 THEN eps ELSE raw[w]]]

\* doc.get(q) or 0: the occurrences of q in a passage
Freq(doc, q) == Cardinality({ j \in 1..Len(doc) : doc[j] = q })

\* The share of one query token in the score of passage i:
\* idf * f * (k1 + 1) / (f + k1 * (1 - b + b * doc_len / avgdl))
TermScore(index, q, i) ==
    LET f == Freq(index.doc_tokens[i], q)
        idf == IF q \in DOMAIN index.idf THEN index.idf[q] ELSE 0
        num == f * (K1Num + K1Den) * BDen * index.total_len
        den == f * K1Den * BDen * index.total_len
               + K1Num * ((BDen - BNum) * index.total_len
                          + BNum * index.doc_len[i] * index.corpus_size)
    IN  IF f = 0 THEN 0 ELSE (idf * num) \div den

\* BM25_INDEX.get_scores(query_tokens)
GetScores(index, query_tokens) ==
    [i \in 1..index.corpus_size |->
        SumSeq([j \in 1..Len(query_tokens) |->
                   TermScore(index, query_tokens[j], i)])]

\* One step of the stable sort by score, highest first
InsertRanked(ranked, e) ==
    LET pos == Cardinality({ j \in 1..Len(ranked) : ranked[j].score >= e.score })
    IN  SubSeq(ranked, 1, pos) \o << e >> \o SubSeq(ranked, pos + 1, Len(ranked))

\* sorted(enumerate(scores), key=lambda x: x[1], reverse=True), first n scores
RECURSIVE Ranked(_, _)
Ranked(scores, n) ==
    IF n = 0 THEN <<>>
    ELSE InsertRanked(Ranked(scores, n - 1), [idx |-> n, score |-> scores[n]])

\* The loop over ranked from position i: a score below min_score is passed
\* over, any other is appended, and the loop breaks once len(results) >= k
RECURSIVE Collect(_, _, _, _, _)
Collect(ranked, i, results, k, min_score) ==
    IF i > Len(ranked) THEN results
    ELSE IF ranked[i].score < min_score
         THEN Collect(ranked, i + 1, results, k, min_score)
         ELSE LET r == Append(results, ranked[i]) IN
              IF Len(r) >= k THEN r
              ELSE Collect(ranked, i + 1, r, k, min_score)

\* get_relevant_snippets(query, k, min_score) over the chunks GYB_SNIPPETS;
\* a result is the index of its chunk (from 1) and its score
get_relevant_snippets(snippets, query, k, min_score) ==
    IF query = <<>> \/ snippets = <<>> THEN <<>>
    ELSE LET index == BM25Okapi(CorpusTokens(snippets))
             scores == GetScores(index, tokenize(query))
         IN  Collect(Ranked(scores, Len(scores)), 1, <<>>, k, min_score)

\* The defaults of get_relevant_snippets
DefaultK == 3
DefaultMinScore == 500000

\* Texts of passages and queries
TextSegmentation ==
    <<"c","u","s","t","o","m","e","r"," ","s","e","g","m","e","n","t",
          "a","t","i","o","n"," ","a","n","d"," ","t","a","r","g",
          "e","t"," ","m","a","r","k","e","t"," ","b","a","s","i",
          "c","s">>
TextPricing ==
    <<"p","r","i","c","i","n","g"," ","s","t","r","a","t","e","g","y",
          " ","f","o","r"," ","s","m","a","l","l"," ","s","h","o",
          "p","s">>
TextTargetCustomers ==
    <<"w","h","o"," ","a","r","e"," ","m","y"," ","t","a","r","g","e",
          "t"," ","c","u","s","t","o","m","e","r","s">>
TextShop == <<"s","h","o","p">>
TextTailorShop == <<"t","a","i","l","o","r"," ","s","h","o","p">>
TextMarketPrice == <<"m","a","r","k","e","t"," ","p","r","i","c","e">>
TextShopShopMarket == <<"s","h","o","p"," ","s","h","o","p"," ","m","a","r","k","e","t">>
TextShopPrice == <<"s","h","o","p"," ","p","r","i","c","e">>
TextTailor == <<"t","a","i","l","o","r">>
TextTailorShopPrice == <<"t","a","i","l","o","r"," ","s","h","o","p"," ","p","r","i","c",
          "e">>
TextPunctuation == <<"?","!">>
TextBlank == <<" ">>

Passage(text) == [content |-> text]

\* A record of the corpus file without a content field
NoContent == [title |-> TextShop]

\* The corpora GYB_SNIPPETS is loaded from: none, the two passages of the
\* customer segmentation example, one passage, passages with a record
\* without content among them, passages sharing words, and only records
\* without content
Corpora ==
    { <<>>,
      << Passage(TextSegmentation), Passage(TextPricing) >>,
      << Passage(TextShop) >>,
      << Passage(TextTailorShop), NoContent, Passage(TextMarketPrice) >>,
      << Passage(TextShopShopMarket), Passage(TextShopPrice),
         Passage(TextTailor) >>,
      << NoContent, Passage(TextTailor) >>,
      << NoContent >> }

Queries ==
    { <<>>, TextTargetCustomers, TextPunctuation, TextBlank, TextShop,
      TextTailorShopPrice }

\* The largest k asked for
MaxK == 3

MinScores == { -1000000, 0, DefaultMinScore }

\* Building the index at import raises
IndexRaises(snippets) ==
    snippets # <<>> /\ BM25Okapi(CorpusTokens(snippets)).raised

InitRetrieval ==
    /\ SessionInit
    /\ probe \in { [fn |-> "get_relevant_snippets", snippets |-> c, query |-> q,
                    k |-> k, min_score |-> m, done |-> FALSE, raised |-> FALSE,
                    result |-> <<>>] :
                   c \in Corpora, q \in Queries, k \in 0..MaxK, m \in MinScores }

\* The module is imported over a corpus whose index cannot be built
BuildRaises ==
    /\ probe.fn = "get_relevant_snippets"
    /\ ~probe.done
    /\ IndexRaises(probe.snippets)
    /\ probe' = [probe EXCEPT !.done = TRUE, !.raised = TRUE]
    /\ UNCHANGED sessionVars

\* get_relevant_snippets(query, k, min_score) is evaluated
Retrieve ==
    /\ probe.fn = "get_relevant_snippets"
    /\ ~probe.done
    /\ ~IndexRaises(probe.snippets)
    /\ probe' = [probe EXCEPT
                    !.done = TRUE,
                    !.result = get_relevant_snippets(probe.snippets, probe.query,
                                                     probe.k, probe.min_score)]
    /\ UNCHANGED sessionVars

NextRetrieval == BuildRaises \/ Retrieve

SpecRetrieval == InitRetrieval /\ [][NextRetrieval]_vars

-----------------------------------------------------------------------------
(* The context llm_feedback composes for the oracle *)

\* The stage argument of llm_feedback as text
StageText(st) ==
    CASE st = "ask_background" -> 
           <<"a","s","k","_","b","a","c","k","g","r","o","u","n","d">>
      [] st = "ask_idea" -> <<"a","s","k","_","i","d","e","a">>
      [] st = "ask_customers" -> 
           <<"a","s","k","_","c","u","s","t","o","m","e","r","s">>
      [] st = "ask_competitors" -> 
           <<"a","s","k","_","c","o","m","p","e","t","i","t","o","r","s">>
      [] st = "ask_location" -> <<"a","s","k","_","l","o","c","a","t","i","o","n">>
      [] st = "general" -> <<"g","e","n","e","r","a","l">>

\* f"Stage: {stage}. Idea: {idea}. Learner text: {user_answer}"
RetrievalQuery(st, idea, user_answer) ==
    <<"S","t","a","g","e",":"," ">> \o StageText(st)
        \o <<"."," ","I","d","e","a",":"," ">> \o idea
        \o <<"."," ","L","e","a","r","n","e","r"," ","t","e","x","t",":"," ">>
        \o user_answer

Fallback == <<"No relevant chunks found. Give general GYB advice.">>

\* The characters of a chunk's content that go into the context
TruncateLen == 300

\* f"- {c['content'][:300]}..."
FormatChunk(content) ==
    <<"- ">>
        \o SubSeq(content, 1, IF Len(content) < TruncateLen THEN Len(content)
                                                             ELSE TruncateLen)
        \o <<"...">>

\* sep.join(parts)
RECURSIVE Join(_, _)
Join(parts, sep) ==
    IF parts = <<>> THEN <<>>
    ELSE IF Len(parts) = 1 THEN parts[1]
    ELSE parts[1] \o sep \o Join(Tail(parts), sep)

\* c['content'] raises KeyError for a chunk without content
ContextRaises(snippets, chunks) ==
    \E i \in 1..Len(chunks) : "content" \notin DOMAIN snippets[chunks[i].idx]

\* ComposeContext that joins the chunks even when there are none
ComposeContext_NoFallback(snippets, chunks) ==
    Join([i \in 1..Len(chunks) |->
             FormatChunk(GetContent(snippets[chunks[i].idx]))], <<"\n\n">>)

\* The context of llm_feedback: the chunks, formatted and joined, or the
\* fallback when there is no chunk
ComposeContext(snippets, chunks) ==
    IF chunks # <<>>
    THEN Join([i \in 1..Len(chunks) |->
                  FormatChunk(GetContent(snippets[chunks[i].idx]))], <<"\n\n">>)
    ELSE Fallback

\* The stage arguments llm_feedback is called with
FeedbackStages ==
    {"ask_background", "ask_idea", "ask_customers", "ask_competitors",
     "ask_location", "general"}

\* gyb_data.get("idea", "")
Ideas == { <<>>, TextTailorShop }

UserAnswers == (Inputs \ {<<>>}) \cup { TextTailor, TextTargetCustomers }

InitContext ==
    /\ SessionInit
    /\ probe \in { [fn |-> "llm_feedback", snippets |-> c, stage |-> st,
                    idea |-> i, user_answer |-> a, done |-> FALSE,
                    raised |-> FALSE, chunks |-> <<>>, context |-> <<>>] :
                   c \in { x \in Corpora : ~IndexRaises(x) },
                   st \in FeedbackStages, i \in Ideas, a \in UserAnswers }

\* llm_feedback retrieves the chunks and composes the context
Compose ==
    /\ probe.fn = "llm_feedback"
    /\ ~probe.done
    /\ LET chunks == get_relevant_snippets(
                         probe.snippets,
                         RetrievalQuery(probe.stage, probe.idea,
                                        probe.user_answer),
                         DefaultK, DefaultMinScore)
       IN  probe' = [probe EXCEPT
                        !.done = TRUE,
                        !.chunks = chunks,
                        !.raised = ContextRaises(probe.snippets, chunks),
                        !.context = ComposeContext(probe.snippets, chunks)]
    /\ UNCHANGED sessionVars

NextContext == Compose

SpecContext == InitContext /\ [][NextContext]_vars

-----------------------------------------------------------------------------
(* Vocabulary of the properties *)

\* The fixed sequence of stages
StageOrder ==
    <<"ask_background", "ask_idea", "ask_customers", "ask_competitors",
      "ask_location", "finished">>

StageIndex(st) == CHOOSE i \in 1..Len(StageOrder) : StageOrder[i] = st

\* The stage identifier without its ask_ prefix
StrippedName(st) ==
    CASE st = "ask_background"  -> "background"
      [] st = "ask_idea"        -> "idea"
      [] st = "ask_customers"   -> "customers"
      [] st = "ask_competitors" -> "competitors"
      [] st = "ask_location"    -> "location"

\* The fields of the stages before st in the fixed sequence
FieldsBefore(st) ==
    { StrippedName(StageOrder[i]) : i \in 1..(StageIndex(st) - 1) }

\* The question that asks for the answer of a guided stage
QuestionOf(st) ==
    CASE st = "ask_background"  -> <<"First, tell me about yourself - skills, experience, situation?">>
      [] st = "ask_idea"        -> <<"Great - now describe one business idea you have?">>
      [] st = "ask_customers"   -> <<"Nice. Who are your main customers?">>
      [] st = "ask_competitors" -> <<"Now tell me about your competitors.">>
      [] st = "ask_location"    -> <<"Where will you run this business (home, shop, online)?">>

\* The messages appended to the transcript since the current turn started
TurnMessages == SubSeq(messages, pre.mlen + 1, Len(messages))

TurnDone == pc = "idle" /\ outcome = "ok"
TurnFailed == pc = "idle" /\ outcome = "failed"

-----------------------------------------------------------------------------
(* Properties *)

\* C1: every step leaves the stage alone or moves it to its immediate
\* successor in the fixed sequence; it never goes back, skips or revisits.
C1_StageAdvancesOneStep ==
    [][ \/ stage' = stage
        \/ /\ stage # "finished"
           /\ StageIndex(stage') = StageIndex(stage) + 1 ]_vars

\* C1 witness: the whole sequence was walked, with a failed turn on the way.
C1_Witness == stage = "finished" /\ failures >= 1 /\ pc = "idle"

\* C2: a guided turn whose oracle call failed leaves collectedFields, stage
\* and pendingQuestion as they were before the turn.
C2_FailedGuidedTurnChangesNothing ==
    (TurnFailed /\ branch = "guided") =>
        /\ data = pre.data
        /\ stage = pre.stage
        /\ last_question = pre.last_question

\* C3: a side-question turn leaves stage, collectedFields and
\* pendingQuestion unchanged, and once the oracle has replied the turn has
\* appended the input, the reply and last the pending question verbatim.
C3_SideQuestionKeepsPlace ==
    branch = "side" =>
        /\ stage = pre.stage
        /\ data = pre.data
        /\ last_question = pre.last_question
        /\ TurnDone =>
              \E r \in Replies :
                  TurnMessages = << Msg("user", user_input),
                                    Msg("assistant", r),
                                    Msg("assistant", pre.last_question) >>

\* C3 witness: a side question asked at ask_idea has been answered.
C3_Witness == branch = "side" /\ TurnDone /\ stage = "ask_idea"

\* C4: a turn in which an oracle call failed has appended a failure notice
\* (an assistant message that is not oracle text) to the transcript, and the
\* stage at which the next input is handled is the stage of the failed turn.
C4_FailedTurnLeavesNotice ==
    TurnFailed =>
        /\ \E i \in 1..Len(TurnMessages) :
              /\ TurnMessages[i].role = "assistant"
              /\ TurnMessages[i].content \notin Replies
        /\ stage = pre.stage

\* C5: between turns the keys of collectedFields are exactly the fields of
\* the stages before the current one, and a turn that moved the stage added
\* exactly one key.
C5_KeysAreStagesPassed ==
    pc = "idle" =>
        /\ DOMAIN data = FieldsBefore(stage)
        /\ stage # pre.stage =>
              /\ DOMAIN pre.data \subseteq DOMAIN data
              /\ Cardinality(DOMAIN data \ DOMAIN pre.data) = 1

\* C6: summary is assigned at most once, and only by the step that moves the
\* stage from ask_location to finished.
C6_SummarySetOnceOnFinish ==
    /\ [](summarySets <= 1)
    /\ [][ (summary' # summary \/ summarySets' # summarySets) =>
               /\ stage = "ask_location"
               /\ stage' = "finished"
               /\ summary = None ]_vars

\* C6 witness: the summary was set and a later turn after finished completed.
C6_Witness ==
    summarySets = 1 /\ summary # None /\ branch = "general" /\ TurnDone

\* C7 (as stated): in every state the pending question is the question of a
\* stage not yet answered, the current one; side questions do not change it.
C7_PendingIsUnansweredQuestion ==
    /\ \E i \in StageIndex(stage)..(Len(StageOrder) - 1) :
          last_question = QuestionOf(StageOrder[i])
    /\ branch = "side" => last_question = pre.last_question

\* C7 (amended): while the stage is not finished the pending question is the
\* question of the current stage; once finished it stays the ask_location
\* question; side questions do not change it.
C7_PendingIsCurrentOrLastQuestion ==
    /\ stage # "finished" => last_question = QuestionOf(stage)
    /\ stage = "finished" => last_question = QuestionOf("ask_location")
    /\ branch = "side" => last_question = pre.last_question

\* C7 witness: finished, with a side question asked on the way.
C7_Witness ==
    /\ stage = "finished"
    /\ pc = "idle"
    /\ \E i \in 1..Len(messages) :
          /\ messages[i].role = "user"
          /\ looks_like_question(messages[i].content)

\* C8: finished is absorbing.  A step taken at finished changes neither the
\* stage, the collected fields, the summary nor the pending question; a turn
\* started at finished issues one oracle request, with stage "general", and
\* once it has completed it has appended the input and the oracle reply and
\* nothing else.
C8_FinishedIsAbsorbing ==
    /\ [][ stage = "finished" =>
               /\ stage' = "finished"
               /\ data' = data
               /\ summary' = summary
               /\ last_question' = last_question ]_vars
    /\ [](pre.stage = "finished" =>
               /\ turnCalls = << Call("llm_feedback", "general") >>
               /\ TurnDone =>
                     \E r \in Replies :
                         TurnMessages = << Msg("user", user_input),
                                           Msg("assistant", r) >>)

\* C8 witness: an input classified as a question was answered after finished.
C8_Witness ==
    pre.stage = "finished" /\ TurnDone /\ looks_like_question(user_input)

\* C9: with an oracle that never failed, once five inputs not classified as
\* questions have been handled the stage is finished, the summary is set and
\* the five fields hold those inputs in order, whatever side questions were
\* asked in between.
C9_FiveAnswersFinish ==
    (pc = "idle" /\ failures = 0 /\ Len(answers) = 5) =>
        /\ stage = "finished"
        /\ summary # None
        /\ DOMAIN data =
              {"background", "idea", "customers", "competitors", "location"}
        /\ data["background"] = answers[1]
        /\ data["idea"] = answers[2]
        /\ data["customers"] = answers[3]
        /\ data["competitors"] = answers[4]
        /\ data["location"] = answers[5]

\* C9 witness: five answers, not all the same, with a side question in
\* between (the customers question was asked twice).
C9_Witness ==
    /\ pc = "idle" /\ failures = 0 /\ Len(answers) = 5
    /\ answers[1] # answers[2]
    /\ \E i, j \in 1..Len(messages) :
          /\ i < j
          /\ messages[i] = Msg("assistant", QuestionOf("ask_customers"))
          /\ messages[j] = messages[i]

\* C10: at most one oracle request is in flight; a turn issues one request,
\* except the guided turn at ask_location, which issues at most two: the
\* feedback request first, and the summary request only once the feedback
\* request has returned.
C10_OracleCallsSequential ==
    /\ Cardinality(inflight) <= 1
    /\ Len(turnCalls) <=
          IF branch = "guided" /\ pre.stage = "ask_location" THEN 2 ELSE 1
    /\ Len(turnCalls) = 2 =>
          /\ turnCalls[1].fn = "llm_feedback"
          /\ turnCalls[2].fn = "generate_summary"
    /\ \A c \in inflight :
          c.fn = "generate_summary" => Len(turnCalls) = 2 /\ pc = "summary"
    /\ \A c \in inflight :
          c.fn = "llm_feedback" => Len(turnCalls) = 1 /\ pc # "summary"

\* C10 witness: the turn at ask_location has made both calls.
C10_Witness == Len(turnCalls) = 2 /\ TurnDone /\ pre.stage = "ask_location"

\* C11: the transcript is append-only: every step, also one in which an
\* oracle call fails, leaves the transcript it found as an unchanged prefix
\* of the transcript it leaves.
C11_TranscriptAppendOnly ==
    [][ /\ Len(messages') >= Len(messages)
        /\ SubSeq(messages', 1, Len(messages)) = messages ]_vars

\* C11 witness: a turn has failed after the transcript had grown.
C11_Witness == TurnFailed /\ Len(messages) > 4

\* C18: the value stored for the field of a stage that has been passed is
\* never changed or removed by a later step; a stored value is replaced only
\* while the stage of its field is the current stage.
C18_PassedFieldsAreFrozen ==
    [][ /\ \A i \in 1..(StageIndex(stage) - 1) :
              LET f == StrippedName(StageOrder[i]) IN
                  /\ f \in DOMAIN data
                  /\ f \in DOMAIN data'
                  /\ data'[f] = data[f]
        /\ \A f \in DOMAIN data :
              (f \notin DOMAIN data' \/ data'[f] # data[f]) =>
                  (stage # "finished" /\ f = StrippedName(stage)) ]_vars

\* C18 witness: a field was re-answered after a failed turn, with stages
\* already passed.
C18_Witness ==
    /\ pc = "guided"
    /\ StageIndex(stage) > 2
    /\ StrippedName(stage) \in DOMAIN pre.data
    /\ data[StrippedName(stage)] # pre.data[StrippedName(stage)]

\* C19: while a generate_summary request is in flight the collected fields
\* are the five fields, and location holds the input of the current turn.
C19_SummarySeesAllFields ==
    \A c \in inflight :
        c.fn = "generate_summary" =>
            /\ DOMAIN data =
                  {"background", "idea", "customers", "competitors", "location"}
            /\ data["location"] = user_input

\* C19 witness: generate_summary was called on a path with a failed turn.
C19_Witness ==
    /\ Call("generate_summary", "ask_location") \in inflight
    /\ failures >= 1

\* C20: a completed turn that ends in a stage other than finished has
\* appended exactly the input, the oracle reply and a question, and that last
\* message is an assistant message holding the pending question.
C20_TurnEndsWithPendingQuestion ==
    (TurnDone /\ stage # "finished") =>
        /\ messages[Len(messages)] = Msg("assistant", last_question)
        /\ \E r \in Replies :
              TurnMessages = << Msg("user", user_input),
                                Msg("assistant", r),
                                Msg("assistant", last_question) >>

\* C20 witness: a guided turn and a side-question turn have both completed.
C20_Witness ==
    /\ TurnDone
    /\ branch = "side"
    /\ stage = "ask_customers"

\* The lead words of a question
LeadWords ==
    { <<"h","o","w">>, <<"w","h","a","t">>, <<"w","h","y">>, <<"w","h","e","n">>, <<"w","h","e","r","e">>, <<"w","h","o">>, <<"w","h","i","c","h">>,
      <<"c","a","n">>, <<"c","o","u","l","d">>, <<"s","h","o","u","l","d">>, <<"i","s">>, <<"a","r","e">>, <<"d","o">>, <<"d","o","e","s">> }

\* The trimmed, lower-cased text ends with ? or starts with a lead word that
\* is followed by a word boundary
IsQuestionText(text) ==
    LET t == Lower(Strip(text)) IN
        \/ EndsWith(t, <<"?">>)
        \/ \E w \in LeadWords :
              /\ StartsWith(t, w)
              /\ Len(t) = Len(w) \/ ~IsWordChar(t[Len(w) + 1])

\* C14: looks_like_question returns true exactly for the texts that, trimmed
\* and lower-cased, end with ? or start with a lead word followed by a word
\* boundary.
C14_QuestionIffMarkOrLeadWord ==
    (probe.fn = "looks_like_question" /\ probe.done) =>
        probe.result = IsQuestionText(probe.text)

\* The probe holds a finished call of get_relevant_snippets
Retrieved == probe.fn = "get_relevant_snippets" /\ probe.done /\ ~probe.raised

\* The scores of the passages for the query of the probe
ProbeScores ==
    GetScores(BM25Okapi(CorpusTokens(probe.snippets)), tokenize(probe.query))

\* C12: the results of get_relevant_snippets are in non-increasing score
\* order, at most k, each with a score of at least min_score, and no passage
\* with a score of at least min_score is left out in favour of a returned
\* passage with a lower score.
C12_RankedTopK ==
    Retrieved =>
        LET res == probe.result IN
            /\ \A i, j \in 1..Len(res) : i < j => res[i].score >= res[j].score
            /\ Len(res) <= probe.k
            /\ \A i \in 1..Len(res) : res[i].score >= probe.min_score
            /\ res # <<>> =>
                  \A p \in 1..Len(probe.snippets) :
                      (/\ ProbeScores[p] >= probe.min_score
                       /\ \A i \in 1..Len(res) : res[i].idx # p)
                      => \A i \in 1..Len(res) : res[i].score >= ProbeScores[p]

\* C13: get_relevant_snippets returns the empty sequence when the corpus is
\* empty and when the query has no tokens, whatever k and min_score are
\* (stated for k of at least 1, where at most k results is not in question).
C13_EmptyForNoCorpusOrNoTokens ==
    (/\ Retrieved
     /\ probe.k >= 1
     /\ probe.snippets = <<>> \/ tokenize(probe.query) = <<>>) =>
        probe.result = <<>>

\* C16: a record without content is left out of the index: it does not
\* count as a passage, no query returns it, and it does not stop the index
\* from being built.
C16_RecordWithoutContentSkipped ==
    (probe.fn = "get_relevant_snippets" /\ probe.done
        /\ probe.snippets # <<>>) =>
        LET withContent ==
                { i \in 1..Len(probe.snippets) :
                      "content" \in DOMAIN probe.snippets[i] }
            index == BM25Okapi(CorpusTokens(probe.snippets))
        IN  /\ ~probe.raised
            /\ ~index.raised
            /\ index.corpus_size = Cardinality(withContent)
            /\ \A i \in 1..Len(probe.result) :
                  probe.result[i].idx \in withContent

\* C17: over the two passages of the customer segmentation example, the
\* query "who are my target customers" scores passage 1 strictly higher
\* than passage 2 and the result ranks passage 1 above passage 2.
C17_SegmentationPassageRanksFirst ==
    (/\ Retrieved
     /\ probe.snippets = << Passage(TextSegmentation), Passage(TextPricing) >>
     /\ probe.query = TextTargetCustomers
     /\ probe.k >= 1) =>
        /\ ProbeScores[1] > ProbeScores[2]
        /\ \E i \in 1..Len(probe.result) :
              /\ probe.result[i].idx = 1
              /\ \A j \in 1..Len(probe.result) :
                    probe.result[j].idx = 2 => i < j

\* C15: when retrieval yields no chunk, as it does for every input over an
\* empty corpus, the context composed for the oracle is the fallback text;
\* the context is never empty or missing.
C15_FallbackContext ==
    (probe.fn = "llm_feedback" /\ probe.done) =>
        /\ ~probe.raised
        /\ probe.snippets = <<>> => probe.chunks = <<>>
        /\ probe.chunks = <<>> => probe.context = Fallback
        /\ probe.context # <<>>

\* C15 witness: a guided answer over an empty corpus got the fallback.
C15_Witness ==
    /\ probe.fn = "llm_feedback"
    /\ probe.done
    /\ probe.snippets = <<>>
    /\ probe.stage = "ask_customers"
    /\ probe.context = Fallback

====
